---- MODULE Spec2Model ----
(***************************************************************************)
(* Capacitance meter of the cable tester (arduino/cable_tester/            *)
(* capacitance.h): the RC charge-time measurement, its averaging, the      *)
(* pass/warn classification and the stray-capacitance calibration, as a    *)
(* state machine over the fixture's pins, the 32-bit microsecond clock and *)
(* the position of the single thread of control.                           *)
(*                                                                         *)
(* Floating-point values are modelled as exact decimal-scaled rationals    *)
(* (n/d * 10^e); IEEE rounding of the 32-bit float is not modelled.        *)
(***************************************************************************)
EXTENDS Integers, Sequences, FiniteSets, TLC

\* ------------------------------------------------------------------ bounds

\* Durations (microseconds) one analogRead() may take between two reads of
\* micros(): a fast conversion, a slow one, and a stall as long as the timeout.
FastPollUs == 15
CablePollUs == 3000
StallUs == 100000
\* Poll iterations explored per charge cycle.
MaxPolls == 2

PollUs == {FastPollUs, CablePollUs, StallUs}

\* ADC codes analogRead() may return (10-bit converter): both sides of the
\* threshold and the extremes.
AdcCodes == {0, 511, 512, 1023}

\* -------------------------------------------------------- program constants

CAP_ADC_THRESHOLD == 512
CAP_TIMEOUT_US == 100000
CAP_DISCHARGE_TIME_MS == 10
CAP_NUM_SAMPLES == 5
SAMPLE_GAP_MS == 10
RELAY_SETTLE_MS == 20
CAL_NOTICE_MS == 2000
RANGE_MIN_PF == 50
RANGE_MAX_PF == 2000

\* ------------------------------------------------- unsigned long (32 bits)

\* An unsigned long is kept as two 16-bit limbs, value = hi * Limb + lo, so
\* that sums wrap at 2^32 exactly as on the target.
Limb == 65536

U32Of(n) == [hi |-> (n \div Limb) % Limb, lo |-> n % Limb]

U32Add(a, b) ==
  LET s == a.lo + b.lo
  IN  [hi |-> (a.hi + b.hi + (s \div Limb)) % Limb, lo |-> s % Limb]

U32Sub(a, b) ==
  LET borrow == IF a.lo < b.lo THEN 1 ELSE 0
  IN  [hi |-> (a.hi - b.hi - borrow + Limb) % Limb,
       lo |-> (a.lo - b.lo + Limb) % Limb]

U32Less(a, b) == a.hi < b.hi \/ (a.hi = b.hi /\ a.lo < b.lo)

\* The value of an unsigned long below 2^31 as an integer.
U32ToNat(a) == a.hi * Limb + a.lo

\* 2^32 - k, for 0 < k < 2^31.
U32Before(k) == U32Sub(U32Of(0), U32Of(k))

\* --------------------------------------------------------------- float

RECURSIVE GCD(_, _)
GCD(a, b) == IF b = 0 THEN a ELSE GCD(b, a % b)

Abs(x) == IF x < 0 THEN -x ELSE x

RECURSIVE Pow10(_)
Pow10(k) == IF k = 0 THEN 1 ELSE 10 * Pow10(k - 1)

\* The real number n/d * 10^e, with n/d in lowest terms.
Dec(n, d, e) ==
  IF n = 0 THEN [n |-> 0, d |-> 1, e |-> 0]
  ELSE LET g == GCD(Abs(n), d) IN [n |-> n \div g, d |-> d \div g, e |-> e]

DecMul(a, b) ==
  LET g1 == GCD(Abs(a.n), b.d)
      g2 == GCD(Abs(b.n), a.d)
  IN  IF a.n = 0 \/ b.n = 0 THEN Dec(0, 1, 0)
      ELSE Dec((a.n \div g1) * (b.n \div g2), (a.d \div g2) * (b.d \div g1), a.e + b.e)

\* b is positive wherever the program divides.
DecDiv(a, b) == DecMul(a, [n |-> b.d, d |-> b.n, e |-> 0 - b.e])

\* a - b, brought to exponent 0 (both exponents are >= 0 where the program
\* subtracts or compares).
DecSub(a, b) ==
  LET an == a.n * Pow10(a.e)
      bn == b.n * Pow10(b.e)
  IN  Dec(an * b.d - bn * a.d, a.d * b.d, 0)

DecAdd(a, b) == DecSub(a, [n |-> 0 - b.n, d |-> b.d, e |-> b.e])

DecLess(a, b) == DecSub(a, b).n < 0

DecLeq(a, b) == DecSub(a, b).n <= 0

\* ------------------------------------------------------------------ pins

\* A pin is its direction and its output latch (AVR: DDR bit and PORT bit).
\* pinMode(INPUT) clears the latch, pinMode(OUTPUT) keeps it.
pinMode(pin, mode) ==
  IF mode = "INPUT" THEN [mode |-> "INPUT", level |-> "LOW"]
  ELSE [pin EXCEPT !.mode = "OUTPUT"]

digitalWrite(pin, val) == [pin EXCEPT !.level = val]

OutputLow == [mode |-> "OUTPUT", level |-> "LOW"]

\* ----------------------------------------------------- calculateCapacitance

CAP_CHARGE_RESISTOR == Dec(22, 1, 5)     \* 2200000.0
LN2 == Dec(693, 1, -3)                   \* 0.693
CAP_STRAY_PF == Dec(20, 1, 0)            \* 20.0 as shipped
MICROS_PER_SECOND == Dec(1, 1, 6)        \* 1000000.0
PF_PER_FARAD == Dec(1, 1, 12)            \* 1e12
ZeroPf == Dec(0, 1, 0)

\* The value of CAP_STRAY_PF the firmware is built with: the shipped 20.0, or
\* the value a calibration told the operator to put in capacitance.h.
VARIABLE strayPf

\* calculateCapacitance dividing the integer microseconds by the integer
\* 1000000 instead of the float 1000000.0: whole seconds.
calculateCapacitanceWholeSeconds(chargeTimeUs) ==
  IF chargeTimeUs = 0 THEN ZeroPf
  ELSE LET timeSeconds == Dec(chargeTimeUs \div 1000000, 1, 0)
           capacitanceFarads == DecDiv(timeSeconds, DecMul(CAP_CHARGE_RESISTOR, LN2))
           capacitancePf == DecMul(capacitanceFarads, PF_PER_FARAD)
           corrected == DecSub(capacitancePf, strayPf)
       IN  IF corrected.n < 0 THEN ZeroPf ELSE corrected

\* calculateCapacitance with the clamp to zero left out.
calculateCapacitanceNoClamp(chargeTimeUs) ==
  IF chargeTimeUs = 0 THEN ZeroPf
  ELSE DecSub(DecMul(DecDiv(DecDiv(Dec(chargeTimeUs, 1, 0), MICROS_PER_SECOND),
                            DecMul(CAP_CHARGE_RESISTOR, LN2)),
                     PF_PER_FARAD),
              strayPf)

calculateCapacitance(chargeTimeUs) ==
  IF chargeTimeUs = 0 THEN ZeroPf
  ELSE LET timeSeconds == DecDiv(Dec(chargeTimeUs, 1, 0), MICROS_PER_SECOND)
           capacitanceFarads == DecDiv(timeSeconds, DecMul(CAP_CHARGE_RESISTOR, LN2))
           capacitancePf == DecMul(capacitanceFarads, PF_PER_FARAD)
           corrected == DecSub(capacitancePf, strayPf)
       IN  IF corrected.n < 0 THEN ZeroPf ELSE corrected

\* Serial.print(x, digits) of a non-negative float: x + 0.5/10^digits, cut
\* after `digits` decimals; the printed number in units of 10^-digits.
PrintFloat(x, digits) ==
  LET q == x.n \div x.d
      r == x.n % x.d
  IN  q * Pow10(digits) + ((2 * r * Pow10(digits) + x.d) \div (2 * x.d))

\* ----------------------------------------------------------------- state

VARIABLES
  chargePin,      \* CAP_CHARGE_PIN
  dischargePin,   \* CAP_DISCHARGE_PIN
  k1k2Relay,      \* K1_K2_RELAY_PIN level
  k4Relay,        \* K4_RELAY_PIN level
  contSleeve,     \* TS_CONT_OUT_SLEEVE_PIN
  contTip,        \* TS_CONT_OUT_TIP_PIN
  now,            \* micros(), an unsigned long
  pc,             \* position of the thread of control
  op,             \* the entry point running, or the one that returned last
  i,              \* measureCapacitance: loop index
  totalTime,      \* measureCapacitance: totalTime
  validSamples,   \* measureCapacitance: validSamples
  startTime,      \* measureChargeTime: startTime
  timeout,        \* measureChargeTime: timeout
  chargeTime,     \* measureChargeTime: the value it returns
  result,         \* CapacitanceResult
  serial,         \* lines written to Serial by the entry point
  retval,         \* runCapacitanceTest's return value ("none" before it returns)
  \* history of the run, not read by the program
  elapsed,        \* true microseconds since startTime was taken
  polls,          \* analogRead() calls of the current cycle
  crossed,        \* the current cycle left its loop through the threshold branch
  crossedSum,     \* sum of the charge times returned by the cycles that crossed
  crossedCount,   \* number of cycles of the current measurement that crossed
  cycles,         \* charge cycles completed by the current measurement
  relayLog,       \* "reset" iff resetCircuit() ran after the last relay write
  settled,        \* the relay settle delay has run since the last topology change
  drainedUs,      \* microseconds dischargeCable() held the node at ground in this cycle
  sMin,           \* smallest charge time returned by a cycle that crossed (0: none yet)
  sMax            \* largest charge time returned by a cycle that crossed (0: none yet)

vars == <<chargePin, dischargePin, k1k2Relay, k4Relay, contSleeve, contTip, now,
          pc, op, i, totalTime, validSamples, startTime, timeout, chargeTime,
          result, serial, retval, elapsed, polls, crossed, crossedSum, crossedCount, cycles,
          relayLog, settled, drainedUs, sMin, sMax, strayPf>>

\* history and build-time state that most steps leave alone
ledger == <<drainedUs, sMin, sMax, strayPf>>

pins == <<chargePin, dischargePin, k1k2Relay, k4Relay, contSleeve, contTip>>
capPins == <<chargePin, dischargePin>>
topology == <<k1k2Relay, k4Relay, contSleeve, contTip>>
mcLocals == <<i, totalTime, validSamples>>
mctLocals == <<startTime, timeout, chargeTime>>
outputs == <<result, serial, retval>>
history == <<elapsed, polls, crossed, crossedSum, crossedCount, cycles, relayLog, settled>>

NoResult == [valid |-> FALSE, capacitance_pf |-> ZeroPf, charge_time_us |-> 0,
             num_samples |-> 0]

Line(tag, pf, us, n) == [tag |-> tag, pf |-> pf, time_us |-> us, samples |-> n]

\* Values of micros() at which runCapacitanceTest() may be called: shortly
\* after boot, and within the last 0.13 s before the counter wraps.
StartClocks == { U32Of(1000000), U32Before(130010), U32Before(120000) }

\* Values of micros() at which calibrateStrayCapacitance() may be called.
CalStartClocks == { U32Of(1000000) }

\* setup(): setupCapacitancePins() after the relay pins are configured; the
\* fixture is in the idle topology.
Init ==
  /\ chargePin = OutputLow
  /\ dischargePin = OutputLow
  /\ k1k2Relay = "LOW"
  /\ k4Relay = "LOW"
  /\ contSleeve = OutputLow
  /\ contTip = OutputLow
  /\ now = U32Of(0)
  /\ pc = "idle"
  /\ op = "none"
  /\ i = 0
  /\ totalTime = 0
  /\ validSamples = 0
  /\ startTime = U32Of(0)
  /\ timeout = U32Of(0)
  /\ chargeTime = 0
  /\ result = NoResult
  /\ serial = << >>
  /\ retval = "none"
  /\ elapsed = 0
  /\ polls = 0
  /\ crossed = FALSE
  /\ crossedSum = 0
  /\ crossedCount = 0
  /\ cycles = 0
  /\ relayLog = "reset"
  /\ settled = TRUE
  /\ drainedUs = 0
  /\ sMin = 0
  /\ sMax = 0
  /\ strayPf = CAP_STRAY_PF

\* delay(ms)
Delay(ms) == now' = U32Add(now, U32Of(ms * 1000))

\* ------------------------------------------------------------ entry points

\* A caller invokes an entry point at some value of the clock; the callee's
\* locals are fresh.
Enter(name, first, clocks) ==
  /\ pc = "idle"
  /\ \E c \in clocks : now' = c
  /\ op' = name
  /\ pc' = first
  /\ i' = 0 /\ totalTime' = 0 /\ validSamples' = 0
  /\ startTime' = U32Of(0) /\ timeout' = U32Of(0) /\ chargeTime' = 0
  /\ result' = NoResult /\ serial' = << >> /\ retval' = "none"
  /\ elapsed' = 0 /\ polls' = 0 /\ crossed' = FALSE
  /\ crossedSum' = 0 /\ crossedCount' = 0 /\ cycles' = 0
  /\ drainedUs' = 0 /\ sMin' = 0 /\ sMax' = 0
  /\ UNCHANGED <<strayPf, pins, relayLog, settled>>

CallRunCapacitanceTest == Enter("run", "cfg_relays", StartClocks)

CallCalibrateStrayCapacitance == Enter("cal", "cal_announce", CalStartClocks)

\* calibrateStrayCapacitance: the two notices and delay(2000)
CalAnnounce ==
  /\ pc = "cal_announce"
  /\ serial' = << Line("CAP_CAL:Starting", 0, 0, 0), Line("CAP_CAL:Ensure", 0, 0, 0) >>
  /\ Delay(CAL_NOTICE_MS)
  /\ pc' = "cfg_relays"
  /\ UNCHANGED <<ledger, pins, op, mcLocals, mctLocals, result, retval, history>>

\* digitalWrite(K1_K2_RELAY_PIN, HIGH); digitalWrite(K4_RELAY_PIN, LOW)
SetRelays ==
  /\ pc = "cfg_relays"
  /\ k1k2Relay' = "HIGH"
  /\ k4Relay' = "LOW"
  /\ relayLog' = "write"
  /\ settled' = FALSE
  /\ pc' = "cfg_float"
  /\ UNCHANGED <<ledger, capPins, contSleeve, contTip, now, op, mcLocals, mctLocals,
                 outputs, elapsed, polls, crossed, crossedSum, crossedCount, cycles>>

\* A continuity output pin left driving the far end.
ContPinLeftDriving(pin) == pin

\* pinMode(TS_CONT_OUT_..._PIN, INPUT)
ContPinFloated(pin) == pinMode(pin, "INPUT")

\* pinMode(TS_CONT_OUT_SLEEVE_PIN, INPUT); pinMode(TS_CONT_OUT_TIP_PIN, INPUT)
FloatContPins ==
  /\ pc = "cfg_float"
  /\ contSleeve' = ContPinFloated(contSleeve)
  /\ contTip' = ContPinFloated(contTip)
  /\ settled' = FALSE
  /\ pc' = "cfg_settle"
  /\ UNCHANGED <<ledger, capPins, k1k2Relay, k4Relay, now, op, mcLocals, mctLocals,
                 outputs, elapsed, polls, crossed, crossedSum, crossedCount, cycles, relayLog>>

\* delay(20)
RelaySettle ==
  /\ pc = "cfg_settle"
  /\ Delay(RELAY_SETTLE_MS)
  /\ settled' = TRUE
  /\ pc' = "mc_init"
  /\ UNCHANGED <<ledger, pins, op, mcLocals, mctLocals, outputs, elapsed, polls,
                 crossed, crossedSum, crossedCount, cycles, relayLog>>

\* --------------------------------------------------------- measureCapacitance

McInit ==
  /\ pc = "mc_init"
  /\ result' = NoResult
  /\ totalTime' = 0
  /\ validSamples' = 0
  /\ i' = 0
  /\ pc' = "mc_loop"
  /\ UNCHANGED <<ledger, pins, now, op, mctLocals, serial, retval, history>>

\* The loop test off by one: a sixth cycle.
MoreSamplesOneExtra(k) == k <= CAP_NUM_SAMPLES

\* for (int i = 0; i < CAP_NUM_SAMPLES; i++): the test, and the call of
\* measureChargeTime() when it passes
MoreSamples(k) == k < CAP_NUM_SAMPLES

McLoop ==
  /\ pc = "mc_loop"
  /\ pc' = IF MoreSamples(i) THEN "dc_charge_low" ELSE "mc_finish"
  /\ UNCHANGED <<ledger, pins, now, op, mcLocals, mctLocals, outputs, history>>

\* ------------------------------------------------------------ dischargeCable

DcChargeLow ==
  /\ pc = "dc_charge_low"
  /\ chargePin' = digitalWrite(chargePin, "LOW")
  /\ pc' = "dc_discharge_low"
  /\ UNCHANGED <<ledger, dischargePin, topology, now, op, mcLocals, mctLocals, outputs, history>>

\* The LOW written to the K1_K2 relay pin instead of the discharge pin.
DcDischargeLowOnRelayPin ==
  /\ pc = "dc_discharge_low"
  /\ k1k2Relay' = "LOW"
  /\ pc' = "dc_delay"
  /\ UNCHANGED <<ledger, capPins, k4Relay, contSleeve, contTip, now, op, mcLocals,
                 mctLocals, outputs, history>>

\* digitalWrite(CAP_DISCHARGE_PIN, LOW)
DcDischargeLow ==
  /\ pc = "dc_discharge_low"
  /\ dischargePin' = digitalWrite(dischargePin, "LOW")
  /\ pc' = "dc_delay"
  /\ UNCHANGED <<ledger, chargePin, topology, now, op, mcLocals, mctLocals, outputs, history>>

\* The node is pulled to ground through the 1k resistor only while the charge
\* pin is low and the discharge pin drives low.
DcDelay ==
  /\ pc = "dc_delay"
  /\ Delay(CAP_DISCHARGE_TIME_MS)
  /\ drainedUs' = IF chargePin = OutputLow /\ dischargePin = OutputLow
                    THEN CAP_DISCHARGE_TIME_MS * 1000 ELSE 0
  /\ pc' = "mct_float"
  /\ UNCHANGED <<sMin, sMax, strayPf, pins, op, mcLocals, mctLocals, outputs, history>>

\* --------------------------------------------------------- measureChargeTime

\* The discharge pin left as it was, still driving.
DischargePinLeftDriving(pin) == pin

\* pinMode(CAP_DISCHARGE_PIN, INPUT)
DischargePinFloated(pin) == pinMode(pin, "INPUT")

MctFloat ==
  /\ pc = "mct_float"
  /\ dischargePin' = DischargePinFloated(dischargePin)
  /\ pc' = "mct_start"
  /\ UNCHANGED <<ledger, chargePin, topology, now, op, mcLocals, mctLocals, outputs, history>>

\* unsigned long startTime = micros()
MctStart ==
  /\ pc = "mct_start"
  /\ startTime' = now
  /\ elapsed' = 0
  /\ polls' = 0
  /\ pc' = "mct_charge_high"
  /\ UNCHANGED <<ledger, pins, now, op, mcLocals, timeout, chargeTime, outputs,
                 crossed, crossedSum, crossedCount, cycles, relayLog, settled>>

\* digitalWrite(CAP_CHARGE_PIN, HIGH)
MctChargeHigh ==
  /\ pc = "mct_charge_high"
  /\ chargePin' = digitalWrite(chargePin, "HIGH")
  /\ pc' = "mct_deadline"
  /\ UNCHANGED <<ledger, dischargePin, topology, now, op, mcLocals, mctLocals, outputs, history>>

\* unsigned long timeout = startTime + CAP_TIMEOUT_US
Deadline(start) == U32Add(start, U32Of(CAP_TIMEOUT_US))

MctDeadline ==
  /\ pc = "mct_deadline"
  /\ timeout' = Deadline(startTime)
  /\ pc' = "poll_check"
  /\ UNCHANGED <<ledger, pins, now, op, mcLocals, startTime, chargeTime, outputs, history>>

\* while (micros() < timeout)
StillWaiting(clock, deadline) == U32Less(clock, deadline)

\* The loop test; when it fails the function takes its timeout path, which
\* returns 0.
PollCheck ==
  /\ pc = "poll_check"
  /\ IF StillWaiting(now, timeout)
       THEN /\ pc' = "poll_read"
            /\ UNCHANGED <<chargeTime, crossed>>
       ELSE /\ pc' = "restore_charge"
            /\ chargeTime' = 0
            /\ crossed' = FALSE
  /\ UNCHANGED <<ledger, pins, now, op, mcLocals, startTime, timeout, outputs,
                 elapsed, polls, crossedSum, crossedCount, cycles, relayLog, settled>>

\* if (adcValue >= CAP_ADC_THRESHOLD)
ReachedThreshold(adcValue) == adcValue >= CAP_ADC_THRESHOLD

\* The difference taken without wrapping: 0 when the counter has wrapped since
\* the start timestamp.
ElapsedSinceNoWrap(t, start) ==
  IF U32Less(t, start) THEN 0 ELSE U32ToNat(U32Sub(t, start))

\* unsigned long chargeTime = micros() - startTime;
ElapsedSince(t, start) == U32ToNat(U32Sub(t, start))

\* One analogRead(), which takes d microseconds and returns adc; on a reading
\* at the threshold, chargeTime = micros() - startTime.
PollRead ==
  /\ pc = "poll_read"
  /\ polls < MaxPolls
  /\ \E d \in PollUs, adc \in AdcCodes :
       /\ now' = U32Add(now, U32Of(d))
       /\ elapsed' = elapsed + d
       /\ IF ReachedThreshold(adc)
            THEN /\ chargeTime' = ElapsedSince(now', startTime)
                 /\ crossed' = TRUE
                 /\ pc' = "restore_charge"
            ELSE /\ pc' = "poll_check"
                 /\ UNCHANGED <<chargeTime, crossed>>
  /\ polls' = polls + 1
  /\ UNCHANGED <<ledger, pins, op, mcLocals, startTime, timeout, outputs, crossedSum,
                 crossedCount, cycles, relayLog, settled>>

\* The discharge pin left in input mode.
DischargePinToOutputSkipped(pin) == pin

\* pinMode(CAP_DISCHARGE_PIN, OUTPUT)
DischargePinToOutput(pin) == pinMode(pin, "OUTPUT")

\* Both return paths: digitalWrite(CAP_CHARGE_PIN, LOW);
RestoreChargeLow ==
  /\ pc = "restore_charge"
  /\ chargePin' = digitalWrite(chargePin, "LOW")
  /\ pc' = "restore_mode"
  /\ UNCHANGED <<ledger, dischargePin, topology, now, op, mcLocals, mctLocals, outputs, history>>

\* pinMode(CAP_DISCHARGE_PIN, OUTPUT);
RestoreDischargeMode ==
  /\ pc = "restore_mode"
  /\ dischargePin' = DischargePinToOutput(dischargePin)
  /\ pc' = "restore_level"
  /\ UNCHANGED <<ledger, chargePin, topology, now, op, mcLocals, mctLocals, outputs, history>>

\* digitalWrite(CAP_DISCHARGE_PIN, LOW); return
RestoreDischargeLow ==
  /\ pc = "restore_level"
  /\ dischargePin' = digitalWrite(dischargePin, "LOW")
  /\ pc' = "mc_accumulate"
  /\ UNCHANGED <<ledger, chargePin, topology, now, op, mcLocals, mctLocals, outputs, history>>

\* ------------------------------------------- measureCapacitance, continued

\* Every cycle counted as a sample, timed out or not.
IsValidSampleAlways(t) == t >= 0

\* if (chargeTime > 0)
IsValidSample(t) == t > 0

\* if (chargeTime > 0) { totalTime += chargeTime; validSamples++; }
\* delay(10); i++
\* (measureChargeTime's locals are gone once its value is consumed)
\* (5 charge times of the model stay far below 2^32, so the sum does not wrap)
McAccumulate ==
  /\ pc = "mc_accumulate"
  /\ IF IsValidSample(chargeTime)
       THEN /\ totalTime' = totalTime + chargeTime
            /\ validSamples' = validSamples + 1
       ELSE UNCHANGED <<totalTime, validSamples>>
  /\ Delay(SAMPLE_GAP_MS)
  /\ i' = i + 1
  /\ cycles' = cycles + 1
  /\ IF crossed
       THEN /\ crossedSum' = crossedSum + chargeTime
            /\ crossedCount' = crossedCount + 1
       ELSE UNCHANGED <<crossedSum, crossedCount>>
  /\ startTime' = U32Of(0) /\ timeout' = U32Of(0) /\ chargeTime' = 0
  /\ IF crossed
       THEN /\ sMin' = IF crossedCount = 0 \/ chargeTime < sMin THEN chargeTime ELSE sMin
            /\ sMax' = IF chargeTime > sMax THEN chargeTime ELSE sMax
       ELSE UNCHANGED <<sMin, sMax>>
  /\ drainedUs' = 0
  /\ elapsed' = 0 /\ polls' = 0 /\ crossed' = FALSE
  /\ pc' = "mc_loop"
  /\ UNCHANGED <<strayPf, pins, op, outputs, relayLog, settled>>

\* A measurement without valid samples returned as a valid 0 pF.
AverageZeroOnTimeout(total, n) ==
  IF n > 0
    THEN [valid |-> TRUE,
          capacitance_pf |-> calculateCapacitance(total \div n),
          charge_time_us |-> total \div n,
          num_samples |-> n]
    ELSE [NoResult EXCEPT !.valid = TRUE]

\* The sum divided by the number of cycles instead of the number of valid ones.
AverageOverAllCycles(total, n) ==
  IF n > 0
    THEN [valid |-> TRUE,
          capacitance_pf |-> calculateCapacitance(total \div CAP_NUM_SAMPLES),
          charge_time_us |-> total \div CAP_NUM_SAMPLES,
          num_samples |-> n]
    ELSE NoResult

\* The sum of the valid charge times stored without dividing by their number.
AverageSumNotMean(total, n) ==
  IF n > 0
    THEN [valid |-> TRUE,
          capacitance_pf |-> calculateCapacitance(total),
          charge_time_us |-> total,
          num_samples |-> n]
    ELSE NoResult

\* if (validSamples > 0) { ... }  return result
Average(total, n) ==
  IF n > 0
    THEN [valid |-> TRUE,
          capacitance_pf |-> calculateCapacitance(total \div n),
          charge_time_us |-> total \div n,
          num_samples |-> n]
    ELSE NoResult

McFinish ==
  /\ pc = "mc_finish"
  /\ result' = Average(totalTime, validSamples)
  /\ i' = 0 /\ totalTime' = 0 /\ validSamples' = 0
  /\ pc' = "restore_sleeve"
  /\ UNCHANGED <<ledger, pins, now, op, mctLocals, serial, retval, history>>

\* ------------------------------------------- restoring the idle topology

\* The latch written without switching the pin back to output.
ContPinRestoredLevelOnly(pin) == digitalWrite(pin, "LOW")

\* pinMode(pin, OUTPUT); digitalWrite(pin, LOW)
ContPinRestored(pin) == digitalWrite(pinMode(pin, "OUTPUT"), "LOW")

\* pinMode(TS_CONT_OUT_SLEEVE_PIN, OUTPUT); digitalWrite(TS_CONT_OUT_SLEEVE_PIN, LOW)
RestoreContSleeve ==
  /\ pc = "restore_sleeve"
  /\ contSleeve' = ContPinRestored(contSleeve)
  /\ settled' = FALSE
  /\ pc' = "restore_tip"
  /\ UNCHANGED <<ledger, capPins, k1k2Relay, k4Relay, contTip, now, op, mcLocals, mctLocals,
                 outputs, elapsed, polls, crossed, crossedSum, crossedCount, cycles, relayLog>>

\* pinMode(TS_CONT_OUT_TIP_PIN, OUTPUT); digitalWrite(TS_CONT_OUT_TIP_PIN, LOW)
RestoreContTip ==
  /\ pc = "restore_tip"
  /\ contTip' = ContPinRestored(contTip)
  /\ settled' = FALSE
  /\ pc' = "reset_circuit"
  /\ UNCHANGED <<ledger, capPins, k1k2Relay, k4Relay, contSleeve, now, op, mcLocals, mctLocals,
                 outputs, elapsed, polls, crossed, crossedSum, crossedCount, cycles, relayLog>>

\* resetCircuit(), defined in the main sketch: switches every test relay off.
ResetCircuit ==
  /\ pc = "reset_circuit"
  /\ k1k2Relay' = "LOW"
  /\ k4Relay' = "LOW"
  /\ relayLog' = "reset"
  /\ settled' = FALSE
  /\ pc' = IF op = "run" THEN "report_run" ELSE "report_cal"
  /\ UNCHANGED <<ledger, capPins, contSleeve, contTip, now, op, mcLocals, mctLocals,
                 outputs, elapsed, polls, crossed, crossedSum, crossedCount, cycles>>

\* ------------------------------------------------- runCapacitanceTest: report

\* The upper limit taken as exclusive.
InRangeUpperExclusive(pf) ==
  /\ DecLeq(Dec(RANGE_MIN_PF, 1, 0), pf)
  /\ DecLess(pf, Dec(RANGE_MAX_PF, 1, 0))

\* bool inRange = (result.capacitance_pf >= 50 && result.capacitance_pf <= 2000)
InRange(pf) ==
  /\ DecLeq(Dec(RANGE_MIN_PF, 1, 0), pf)
  /\ DecLeq(pf, Dec(RANGE_MAX_PF, 1, 0))

BoolStr(b) == IF b THEN "true" ELSE "false"

\* The return value taken from the valid flag instead of the range test.
RunVerdictReturnsValid(res) ==
  IF ~res.valid
    THEN [line |-> Line("CAP:FAIL:TIMEOUT", 0, 0, 0), ret |-> "false"]
    ELSE LET inRange == InRange(res.capacitance_pf)
         IN  [line |-> Line(IF inRange THEN "CAP:PASS" ELSE "CAP:WARN",
                            PrintFloat(res.capacitance_pf, 1),
                            res.charge_time_us, res.num_samples),
              ret |-> BoolStr(res.valid)]

\* The line runCapacitanceTest prints for a result, and the value it returns.
RunVerdict(res) ==
  IF ~res.valid
    THEN [line |-> Line("CAP:FAIL:TIMEOUT", 0, 0, 0), ret |-> "false"]
    ELSE LET inRange == InRange(res.capacitance_pf)
         IN  [line |-> Line(IF inRange THEN "CAP:PASS" ELSE "CAP:WARN",
                            PrintFloat(res.capacitance_pf, 1),
                            res.charge_time_us, res.num_samples),
              ret |-> BoolStr(inRange)]

ReportRun ==
  /\ pc = "report_run"
  /\ serial' = Append(serial, RunVerdict(result).line)
  /\ retval' = RunVerdict(result).ret
  /\ pc' = "idle"
  /\ UNCHANGED <<ledger, pins, now, op, mcLocals, mctLocals, result, history>>

\* ------------------------------------------ calibrateStrayCapacitance: report

\* The corrected value reported as if it were the raw one.
RawPfNotAddedBack(res) == res.capacitance_pf

\* float rawPf = result.capacitance_pf + CAP_STRAY_PF
RawPf(res) == DecAdd(res.capacitance_pf, strayPf)

\* The lines calibrateStrayCapacitance prints for a result: the measured stray
\* capacitance to 1 decimal and the suggested CAP_STRAY_PF to 0 decimals.
CalLines(res) ==
  IF res.valid
    THEN << Line("CAP_CAL:Measured", PrintFloat(RawPf(res), 1), 0, 0),
            Line("CAP_CAL:Update", PrintFloat(RawPf(res), 0), 0, 0) >>
    ELSE << Line("CAP_CAL:FAILED", 0, 0, 0) >>

ReportCal ==
  /\ pc = "report_cal"
  /\ serial' = serial \o CalLines(result)
  /\ retval' = "void"
  /\ pc' = "idle"
  /\ UNCHANGED <<ledger, pins, now, op, mcLocals, mctLocals, result, history>>

\* ------------------------------------------------------------ specification

Next ==
  \/ CallRunCapacitanceTest
  \/ CallCalibrateStrayCapacitance
  \/ CalAnnounce
  \/ SetRelays
  \/ FloatContPins
  \/ RelaySettle
  \/ McInit
  \/ McLoop
  \/ DcChargeLow
  \/ DcDischargeLow
  \/ DcDelay
  \/ MctFloat
  \/ MctStart
  \/ MctChargeHigh
  \/ MctDeadline
  \/ PollCheck
  \/ PollRead
  \/ RestoreChargeLow
  \/ RestoreDischargeMode
  \/ RestoreDischargeLow
  \/ McAccumulate
  \/ McFinish
  \/ RestoreContSleeve
  \/ RestoreContTip
  \/ ResetCircuit
  \/ ReportRun
  \/ ReportCal

Spec == Init /\ [][Next]_vars

\* ------------------------------------- calculateCapacitance on its own

\* Largest charge time (microseconds) calculateCapacitance() is applied to on
\* its own: past the clamp (30 us), the 50 pF limit (107 us) and the 2000 pF
\* limit (3080 us).
MaxCalcUs == 4000

\* calculateCapacitance(chargeTimeUs) for any chargeTimeUs up to MaxCalcUs,
\* with the fixture idle.
CalcInit ==
  /\ chargePin = OutputLow
  /\ dischargePin = OutputLow
  /\ k1k2Relay = "LOW"
  /\ k4Relay = "LOW"
  /\ contSleeve = OutputLow
  /\ contTip = OutputLow
  /\ now = U32Of(0)
  /\ pc = "calc"
  /\ op = "none"
  /\ i = 0
  /\ totalTime = 0
  /\ validSamples = 0
  /\ startTime = U32Of(0)
  /\ timeout = U32Of(0)
  /\ chargeTime \in 0..MaxCalcUs
  /\ result = NoResult
  /\ serial = << >>
  /\ retval = "none"
  /\ elapsed = 0
  /\ polls = 0
  /\ crossed = FALSE
  /\ crossedSum = 0
  /\ crossedCount = 0
  /\ cycles = 0
  /\ relayLog = "reset"
  /\ settled = TRUE
  /\ drainedUs = 0
  /\ sMin = 0
  /\ sMax = 0
  /\ strayPf = CAP_STRAY_PF

CalcApply ==
  /\ pc = "calc"
  /\ result' = [NoResult EXCEPT !.capacitance_pf = calculateCapacitance(chargeTime),
                                !.charge_time_us = chargeTime]
  /\ pc' = "calc_done"
  /\ UNCHANGED <<ledger, pins, now, op, mcLocals, mctLocals, serial, retval, history>>

CalcNext == CalcApply

CalcSpec == CalcInit /\ [][CalcNext]_vars

\* ------------------------------------------------- calibration round trip

\* Largest mean charge time (microseconds) of the open fixture, and the largest
\* stray offset (pF) in force before the calibration.
MaxTripUs == 200
MaxPriorPf == 47

PriorOffsets == { Dec(0, 1, 0), CAP_STRAY_PF, Dec(MaxPriorPf, 1, 0) }

\* An open fixture whose cycles all cross after chargeTime microseconds, and a
\* firmware built with some stray offset.
TripInit ==
  /\ chargePin = OutputLow
  /\ dischargePin = OutputLow
  /\ k1k2Relay = "LOW"
  /\ k4Relay = "LOW"
  /\ contSleeve = OutputLow
  /\ contTip = OutputLow
  /\ now = U32Of(0)
  /\ pc = "trip_calibrate"
  /\ op = "none"
  /\ i = 0
  /\ totalTime = 0
  /\ validSamples = 0
  /\ startTime = U32Of(0)
  /\ timeout = U32Of(0)
  /\ chargeTime \in 1..MaxTripUs
  /\ result = NoResult
  /\ serial = << >>
  /\ retval = "none"
  /\ elapsed = 0
  /\ polls = 0
  /\ crossed = FALSE
  /\ crossedSum = 0
  /\ crossedCount = 0
  /\ cycles = 0
  /\ relayLog = "reset"
  /\ settled = TRUE
  /\ drainedUs = 0
  /\ sMin = 0
  /\ sMax = 0
  /\ strayPf \in PriorOffsets

\* calibrateStrayCapacitance() on that fixture: the average of 5 equal charge
\* times and the lines printed for it.
TripCalibrate ==
  /\ pc = "trip_calibrate"
  /\ result' = Average(CAP_NUM_SAMPLES * chargeTime, CAP_NUM_SAMPLES)
  /\ serial' = CalLines(result')
  /\ pc' = "trip_store"
  /\ UNCHANGED <<ledger, pins, now, op, mcLocals, mctLocals, retval, history>>

\* The operator does what the second line says: "Update CAP_STRAY_PF to <n> in
\* capacitance.h", and rebuilds.
TripStore ==
  /\ pc = "trip_store"
  /\ strayPf' = Dec(serial[2].pf, 1, 0)
  /\ pc' = "trip_measure"
  /\ UNCHANGED <<drainedUs, sMin, sMax, pins, now, op, mcLocals, mctLocals, outputs, history>>

\* measureCapacitance() on the same fixture with the new offset.
TripMeasure ==
  /\ pc = "trip_measure"
  /\ result' = Average(CAP_NUM_SAMPLES * chargeTime, CAP_NUM_SAMPLES)
  /\ pc' = "trip_done"
  /\ UNCHANGED <<ledger, pins, now, op, mcLocals, mctLocals, serial, retval, history>>

TripNext == TripCalibrate \/ TripStore \/ TripMeasure

TripSpec == TripInit /\ [][TripNext]_vars

\* ================================================================== claims

\* The idle topology of the fixture.
IdleTopology ==
  /\ contSleeve = OutputLow
  /\ contTip = OutputLow
  /\ k1k2Relay = "LOW"
  /\ k4Relay = "LOW"
  /\ relayLog = "reset"
  /\ chargePin = OutputLow
  /\ dischargePin = OutputLow

\* An entry point has returned.
Returned(name) == pc = "idle" /\ op = name

\* measureCapacitance() has returned and its result has not been replaced.
Measured ==
  \/ pc \in {"restore_sleeve", "restore_tip", "reset_circuit", "report_run", "report_cal"}
  \/ (pc = "idle" /\ op # "none")

Max0(x) == IF x < 0 THEN 0 ELSE x

\* t/(R*0.693)*1e12 with t in microseconds, R = 2.2 MOhm: t * 10000/15246 pF.
RawClosedForm(t) == Dec(t * 10000, 15246, 0)

\* max(0, t/(R*0.693)*1e12 - 20)
ClosedFormPf(t) == Dec(Max0(t * 10000 - 20 * 15246), 15246, 0)

\* x is a capacitance within [lo, hi] pF, both inclusive.
Within(x, lo, hi) == x.e = 0 /\ lo * x.d <= x.n /\ x.n <= hi * x.d

\* C1: after runCapacitanceTest() or calibrateStrayCapacitance() returns, whatever
\* the measurement's outcome, both continuity output pins are OUTPUT-LOW, the
\* relays are off with resetCircuit() after the last relay write, the charge
\* pin is LOW and the discharge pin is OUTPUT-LOW.
C1_ModeSafety == (Returned("run") \/ Returned("cal")) => IdleTopology

\* A run that returned false on a valid, out-of-range measurement in which some
\* samples timed out.
C1_Witness ==
  Returned("run") /\ result.valid /\ retval = "false"
                  /\ cycles = CAP_NUM_SAMPLES /\ crossedCount < CAP_NUM_SAMPLES

\* C2: when measureChargeTime() returns, on the threshold path and on the
\* timeout path, the charge pin is LOW and the discharge pin is OUTPUT-LOW.
C2_RestoreOnReturn ==
  pc = "mc_accumulate" => (chargePin = OutputLow /\ dischargePin = OutputLow)

\* measureChargeTime() returned through its timeout path after polling.
C2_Witness == pc = "mc_accumulate" /\ ~crossed /\ polls > 0 /\ chargeTime = 0

\* C3: for every charge time t > 0, calculateCapacitance(t) is
\* max(0, t/(R*0.693)*1e12 - 20), and so never negative.
C3_ClosedForm ==
  (pc = "calc_done" /\ chargeTime > 0) =>
     /\ result.capacitance_pf = ClosedFormPf(chargeTime)
     /\ result.capacitance_pf.n >= 0
     /\ result.capacitance_pf.d > 0

\* calculateCapacitance applied to a charge time whose raw capacitance is below
\* the stray offset, so that the clamp acts.
C3_Witness ==
  pc = "calc_done" /\ chargeTime = 20 /\ result.capacitance_pf = ZeroPf

\* C4: when all 5 samples of a measurement time out the result is invalid,
\* runCapacitanceTest() prints only CAP:FAIL:TIMEOUT and returns false: no
\* capacitance, zero or other, is reported for it.
C4_TimeoutIsInvalid ==
  /\ (Measured /\ crossedCount = 0) => (~result.valid /\ result = NoResult)
  /\ (Returned("run") /\ crossedCount = 0) =>
        (serial = << Line("CAP:FAIL:TIMEOUT", 0, 0, 0) >> /\ retval = "false")

\* A run returned with five samples that all timed out.
C4_Witness ==
  Returned("run") /\ cycles = CAP_NUM_SAMPLES /\ crossedCount = 0 /\ retval = "false"

\* C5: measureCapacitance() returns valid exactly when at least one of its
\* cycles reached the threshold, and num_samples is the number of those cycles.
C5_ValidIffSomeCrossed ==
  Measured =>
     /\ result.valid <=> crossedCount >= 1
     /\ result.num_samples = crossedCount

\* A valid measurement in which some cycles timed out and some did not.
C5_Witness ==
  Measured /\ cycles = CAP_NUM_SAMPLES /\ result.valid
           /\ crossedCount >= 1 /\ crossedCount < CAP_NUM_SAMPLES

\* C6: a valid measurement's charge_time_us is the integer mean of the charge
\* times of the cycles that crossed, and its capacitance_pf is the capacitance
\* of that mean time.
C6_MeanOfValidTimes ==
  (Measured /\ result.valid) =>
     /\ crossedCount > 0
     /\ result.charge_time_us = crossedSum \div crossedCount
     /\ result.capacitance_pf = ClosedFormPf(crossedSum \div crossedCount)

\* A valid measurement with timed-out cycles whose mean is not exact.
C6_Witness ==
  Measured /\ result.valid /\ cycles = CAP_NUM_SAMPLES
           /\ crossedCount < CAP_NUM_SAMPLES
           /\ crossedSum % crossedCount # 0

\* C7: a cycle takes its timeout path only when CAP_TIMEOUT_US microseconds
\* have passed since charging started, for every start value of the clock.
C7_TimeoutOnlyAfterDeadline ==
  (pc = "restore_charge" /\ ~crossed) => elapsed >= CAP_TIMEOUT_US

\* C8: the loop test that is evaluated at or after CAP_TIMEOUT_US since the
\* start of charging ends the loop: the body is never entered again, for every
\* start value of the clock and every sequence of readings.
C8_PollLoopBounded == pc = "poll_read" => elapsed < CAP_TIMEOUT_US

\* Both limits of the range are themselves in range.
LimitsInRange == InRange(Dec(RANGE_MIN_PF, 1, 0)) /\ InRange(Dec(RANGE_MAX_PF, 1, 0))

\* C9: for a valid measurement runCapacitanceTest() returns true and prints
\* PASS exactly when 50 <= capacitance_pf <= 2000, bounds inclusive; otherwise
\* it prints WARN with the same numeric fields, returns false, and the fixture
\* is reset either way. 3000 us passes.
C9_RangeVerdict ==
  /\ LimitsInRange
  /\ (Returned("run") /\ result.valid) =>
        LET in == Within(result.capacitance_pf, 50, 2000)
        IN  /\ retval = BoolStr(in)
            /\ Len(serial) = 1
            /\ serial[1].tag = (IF in THEN "CAP:PASS" ELSE "CAP:WARN")
            /\ serial[1].pf = PrintFloat(result.capacitance_pf, 1)
            /\ serial[1].time_us = result.charge_time_us
            /\ serial[1].samples = result.num_samples
            /\ IdleTopology
            /\ (result.charge_time_us = 3000 => in)

\* The scenario of the specification: a mean charge time of 3000 us passes.
C9_Witness ==
  Returned("run") /\ result.valid /\ result.charge_time_us = 3000
                  /\ retval = "true" /\ serial[1].pf = 19477

\* C10: a valid calibration reports the raw capacitance t/(R*0.693)*1e12 of the
\* averaged charge time, to 1 decimal as measured and to 0 decimals as the new
\* CAP_STRAY_PF, also when the raw value is below the current CAP_STRAY_PF.
C10_CalibrationReportsRaw ==
  (Returned("cal") /\ result.valid) =>
     /\ Len(serial) = 4
     /\ serial[3] = Line("CAP_CAL:Measured",
                         PrintFloat(RawClosedForm(result.charge_time_us), 1), 0, 0)
     /\ serial[4] = Line("CAP_CAL:Update",
                         PrintFloat(RawClosedForm(result.charge_time_us), 0), 0, 0)

\* C11: calibrating on an open fixture, storing the reported offset and
\* measuring the same fixture again gives a corrected capacitance between 0
\* and 0.5 pF (the rounding of the stored offset to 0 decimals), whatever the
\* offset was before.
C11_RoundTripNearZero ==
  pc = "trip_done" =>
     /\ result.valid
     /\ result.capacitance_pf.e = 0
     /\ result.capacitance_pf.n >= 0
     /\ 2 * result.capacitance_pf.n <= result.capacitance_pf.d

\* A round trip from a non-zero prior offset that leaves a residue above zero.
C11_Witness ==
  pc = "trip_done" /\ chargeTime = 98 /\ strayPf = Dec(64, 1, 0)
                   /\ result.capacitance_pf.n > 0

\* Pairs of charge times up to MaxGapUs microseconds apart are compared, and
\* each charge time with 1 us; the order of the others follows by transitivity.
MaxGapUs == 40

EarlierTimes(t2) == { t1 \in 1..(t2 - 1) : t1 = 1 \/ t2 - t1 <= MaxGapUs }

\* A capacitance in units of 1/15246 pF (every value calculateCapacitance
\* produces is a whole number of them).
In15246ths(x) == x.n * (15246 \div x.d)

\* C12 as stated: for all charge times 0 < t1 < t2,
\* calculateCapacitance(t1) < calculateCapacitance(t2).
C12_StrictlyMonotone ==
  (pc = "calc_done" /\ chargeTime > 0) =>
     \A t1 \in EarlierTimes(chargeTime) :
        In15246ths(calculateCapacitance(t1)) < In15246ths(result.capacitance_pf)

\* C12, amended: for all charge times 0 < t1 < t2, calculateCapacitance(t1) <
\* calculateCapacitance(t2) when the raw capacitance of t2 is above the stray
\* offset (t2 >= 31 us with 20 pF), and both are 0 otherwise: the reported
\* capacitance never decreases, and increases strictly only above the clamp.
C12_MonotoneStrictAboveClamp ==
  (pc = "calc_done" /\ chargeTime > 0) =>
     \A t1 \in EarlierTimes(chargeTime) :
        IF chargeTime * 10000 > 20 * 15246
          THEN In15246ths(calculateCapacitance(t1)) < In15246ths(result.capacitance_pf)
          ELSE /\ calculateCapacitance(t1) = ZeroPf
               /\ result.capacitance_pf = ZeroPf

\* The first charge time above the clamp, compared with the last one below it.
C12_Witness ==
  /\ pc = "calc_done"
  /\ chargeTime = 31
  /\ result.capacitance_pf.n > 0
  /\ calculateCapacitance(30) = ZeroPf
  /\ calculateCapacitance(29) = ZeroPf

\* C13: measureChargeTime() returns 0 exactly when the poll timed out; a cycle
\* whose sense pin reached the threshold returns the microseconds elapsed
\* from the start timestamp to the crossing, which is positive, so
\* measureCapacitance() counts it as a valid sample.
C13_ZeroIffTimedOut ==
  pc = "mc_accumulate" =>
     /\ (chargeTime = 0) <=> ~crossed
     /\ crossed => (chargeTime = elapsed /\ chargeTime > 0 /\ IsValidSample(chargeTime))

\* A crossing read after micros() wrapped past the start timestamp.
C13_Witness ==
  /\ pc = "mc_accumulate"
  /\ crossed
  /\ U32Less(now, startTime)
  /\ chargeTime = StallUs + FastPollUs

\* C14: in every reachable state the charge pin is HIGH only while the
\* discharge pin is in INPUT mode. Within a cycle the discharge pin is floated
\* and the start timestamp taken before the charge pin goes HIGH, and the
\* charge pin is LOW again before the discharge pin returns to OUTPUT.
C14_ChargeOnlyWhileFloating ==
  /\ chargePin.mode = "OUTPUT"
  /\ chargePin.level = "HIGH" =>
        /\ dischargePin.mode = "INPUT"
        /\ pc \in {"mct_deadline", "poll_check", "poll_read", "restore_charge"}
  /\ pc = "mct_charge_high" => (dischargePin.mode = "INPUT" /\ startTime = now)
  /\ pc \in {"restore_mode", "restore_level"} => chargePin.level = "LOW"
  /\ dischargePin.mode = "OUTPUT" => dischargePin.level = "LOW"

\* The node charging in the third cycle, after one read below the threshold.
C14_Witness ==
  /\ pc = "poll_read"
  /\ chargePin.level = "HIGH"
  /\ dischargePin.mode = "INPUT"
  /\ polls = 1
  /\ cycles = 2

\* C15: every charge phase is immediately preceded by a discharge phase: when
\* the discharge pin is floated and the charge pin driven HIGH, the last thing
\* that happened in this cycle was a full CAP_DISCHARGE_TIME_MS with the charge
\* pin LOW and the discharge pin driving LOW in OUTPUT mode; this holds in each
\* of the 5 cycles and in consecutive measurements.
C15_DischargedBeforeCharge ==
  /\ pc = "dc_delay" => (chargePin = OutputLow /\ dischargePin = OutputLow)
  /\ (pc \in {"mct_float", "mct_start", "mct_charge_high"} \/ chargePin.level = "HIGH")
        => drainedUs = CAP_DISCHARGE_TIME_MS * 1000

\* The fifth charge phase of a calibration about to start after its own
\* discharge, an earlier cycle having timed out.
C15_Witness ==
  /\ pc = "mct_charge_high"
  /\ cycles = CAP_NUM_SAMPLES - 1
  /\ crossedCount < cycles
  /\ op = "cal"
  /\ drainedUs = CAP_DISCHARGE_TIME_MS * 1000

\* The capacitance topology: K1_K2 HIGH, K4 LOW, both continuity output pins
\* in INPUT mode.
CapTopology ==
  /\ k1k2Relay = "HIGH"
  /\ k4Relay = "LOW"
  /\ contSleeve.mode = "INPUT"
  /\ contTip.mode = "INPUT"

\* C16: during runCapacitanceTest() and calibrateStrayCapacitance(), every read
\* of the sense pin and every state with the charge pin HIGH has the
\* capacitance topology in force, with the 20 ms settle delay completed after
\* the last change of a relay or continuity pin.
C16_TopologySettledWhileMeasuring ==
  (pc = "poll_read" \/ chargePin.level = "HIGH") =>
     /\ op \in {"run", "cal"}
     /\ CapTopology
     /\ settled
     /\ relayLog = "write"

\* A read of the sense pin in the last cycle of a calibration.
C16_Witness ==
  /\ pc = "poll_read"
  /\ op = "cal"
  /\ cycles = CAP_NUM_SAMPLES - 1
  /\ CapTopology
  /\ settled

\* Inside one discharge-charge-poll cycle of measureCapacitance().
InCycle ==
  pc \in {"dc_charge_low", "dc_discharge_low", "dc_delay", "mct_float", "mct_start",
          "mct_charge_high", "mct_deadline", "poll_check", "poll_read",
          "restore_charge", "restore_mode", "restore_level", "mc_accumulate"}

\* C17: measureCapacitance() runs exactly CAP_NUM_SAMPLES (5) cycles whatever
\* their outcomes: a cycle starts only while fewer than 5 have completed, the
\* function finishes only after 5, timed-out cycles are counted and not
\* repeated, and 0 <= num_samples <= 5.
C17_ExactlyFiveCycles ==
  /\ InCycle => (cycles = i /\ cycles < CAP_NUM_SAMPLES)
  /\ pc = "mc_loop" => (cycles = i /\ cycles <= CAP_NUM_SAMPLES)
  /\ pc = "mc_finish" =>
        /\ cycles = CAP_NUM_SAMPLES
        /\ validSamples = crossedCount
        /\ validSamples \in 0..CAP_NUM_SAMPLES
  /\ Measured =>
        /\ cycles = CAP_NUM_SAMPLES
        /\ result.num_samples = crossedCount
        /\ result.num_samples \in 0..CAP_NUM_SAMPLES

\* measureCapacitance() about to return after 5 cycles, 2 of them timed out.
C17_Witness ==
  pc = "mc_finish" /\ cycles = CAP_NUM_SAMPLES /\ validSamples = CAP_NUM_SAMPLES - 2

\* C18: runCapacitanceTest() prints nothing until the fixture is restored
\* (continuity pins OUTPUT-LOW, resetCircuit() called), then exactly one CAP
\* line: FAIL:TIMEOUT iff the measurement is invalid, PASS iff it is valid and
\* within 50..2000 pF, WARN otherwise; it returns true exactly when the line
\* is PASS.
C18_OneLineAfterRestore ==
  /\ (op = "run" /\ pc # "idle") => serial = << >>
  /\ pc = "report_run" =>
        /\ contSleeve = OutputLow
        /\ contTip = OutputLow
        /\ relayLog = "reset"
  /\ Returned("run") =>
        /\ Len(serial) = 1
        /\ serial[1].tag \in {"CAP:FAIL:TIMEOUT", "CAP:PASS", "CAP:WARN"}
        /\ (serial[1].tag = "CAP:FAIL:TIMEOUT") <=> ~result.valid
        /\ (serial[1].tag = "CAP:PASS") <=>
              (result.valid /\ Within(result.capacitance_pf, 50, 2000))
        /\ (retval = "true") <=> (serial[1].tag = "CAP:PASS")
        /\ retval \in {"true", "false"}

\* A run that printed its one line, a WARN for 5 valid samples, and returned
\* false.
C18_Witness ==
  /\ Returned("run")
  /\ serial[1].tag = "CAP:WARN"
  /\ serial[1].samples = CAP_NUM_SAMPLES
  /\ retval = "false"

\* C19: the record measureCapacitance() returns is consistent: when valid is
\* false, capacitance_pf, charge_time_us and num_samples are all 0; when valid
\* is true, 1 <= num_samples <= 5, charge_time_us > 0 and lies between the
\* smallest and the largest valid sample time, and capacitance_pf >= 0.
C19_RecordConsistent ==
  Measured =>
     IF result.valid
       THEN /\ result.num_samples \in 1..CAP_NUM_SAMPLES
            /\ result.charge_time_us > 0
            /\ sMin <= result.charge_time_us
            /\ result.charge_time_us <= sMax
            /\ result.capacitance_pf.n >= 0
            /\ result.capacitance_pf.d > 0
       ELSE /\ result.capacitance_pf = ZeroPf
            /\ result.charge_time_us = 0
            /\ result.num_samples = 0

\* A valid record whose capacitance is clamped to 0 and whose mean charge time
\* lies strictly between its smallest and largest sample.
C19_Witness ==
  /\ Measured
  /\ result.valid
  /\ result.capacitance_pf = ZeroPf
  /\ sMin < result.charge_time_us
  /\ result.charge_time_us < sMax

\* Inside measureCapacitance(), its callees included.
InMeasureCapacitance == InCycle \/ pc \in {"mc_init", "mc_loop", "mc_finish"}

\* C20: every step of measureCapacitance(), dischargeCable() and
\* measureChargeTime() leaves the relay pins and the mode and level of both
\* continuity output pins unchanged; of the capacitance pins only the charge
\* pin's level and the discharge pin's mode and level change.
C20_MeasurementFrame ==
  [][ InMeasureCapacitance =>
        /\ k1k2Relay' = k1k2Relay
        /\ k4Relay' = k4Relay
        /\ contSleeve' = contSleeve
        /\ contTip' = contTip
        /\ chargePin'.mode = chargePin.mode ]_vars

\* measureCapacitance() of a run about to return after its 5 cycles, the
\* capacitance topology still as the caller set it.
C20_Witness ==
  /\ pc = "mc_finish"
  /\ op = "run"
  /\ cycles = CAP_NUM_SAMPLES
  /\ CapTopology
  /\ settled
  /\ chargePin = OutputLow
  /\ dischargePin = OutputLow

====
